---- MODULE Spec2Model ----
(***************************************************************************)
(* Model of botzubale (src/reconocimientoDeImagen.ts):                     *)
(*   - the address pattern /Domicilio:\s*(JMB-[^\s]+)/        (SpecPatron) *)
(*   - encontrarYExtraerInfoTicket / analizarTareaActual         (SpecOCR) *)
(*   - the review loop procesarTareas and its helpers               (Spec) *)
(* Texts are sequences of one-character strings, so that lengths and the   *)
(* pattern are computed on characters as the code computes them.           *)
(***************************************************************************)
EXTENDS Integers, Sequences, FiniteSets, TLC

VARIABLES
    \* ---- address pattern on its own ----
    xpc,              \* "entrada" | "hecho"
    texto,            \* the text handed to the pattern
    coincidencia,     \* result of patronDomicilio.exec(texto)
    \* ---- OCR pipeline ----
    opc,              \* position inside the function
    modo,             \* "rutas" (encontrarYExtraerInfoTicket) | "pantalla" (analizarTareaActual)
    lista,            \* listaRutasImagenes / elementosEvidencia
    idx,              \* index of the next image of the for loop
    maxLongitudTexto, \* let maxLongitudTexto
    mejorCandidato,   \* let mejorCandidato / mejorCandidatoElemento (NULL or an index of lista)
    resultados,       \* history: what each loop iteration's screenshot+recognize produced
    resFinal,         \* history: what the final screenshot+recognize produced
    creados,          \* history: successful createWorker calls
    terminateCalls,   \* history: calls of worker.terminate()
    terminados,       \* history: calls of worker.terminate() that succeeded
    reconocimientos,  \* history: calls of worker.recognize()
    salida,           \* how the function ended: its return value or the error thrown
    \* ---- review loop ----
    pc,               \* position of procesarTareas
    taskId,           \* const taskId of the current iteration
    log,              \* revisiones.log, one record per appended line
    procesadas,       \* history: the taskId of every completed call of procesarPaginaDeTarea
    pagina,           \* what the browser shows: "lista" | "detalle" | "error" (a failed load)
    filtro,           \* whether the client filter is applied to the shown list
    obs,              \* history: what the collaborators answered for the last task
    hist,             \* history: what the loop has done since the last load, opening and search
    \* ---- actWithCache ----
    cache,            \* cache.json: the action stored under each instruction, AUSENTE if none
    llamada           \* history: what the last call of actWithCache read, observed and did

varsPatron == <<xpc, texto, coincidencia>>
varsOCR == <<opc, modo, lista, idx, maxLongitudTexto, mejorCandidato, resultados,
             resFinal, creados, terminateCalls, terminados, reconocimientos, salida>>
varsBucle == <<pc, taskId, log, procesadas, pagina, filtro, obs, hist>>
varsCache == <<cache, llamada>>
vars == <<varsPatron, varsOCR, varsBucle, varsCache>>

NULL == "null"

----------------------------------------------------------------------------
(* Bounds of the model *)

MaxFragmentos == 4   \* fragments concatenated into a generated text
MaxImagenes == 3     \* images in one call of the pipeline
MaxTareas == 2       \* tasks opened in one run of the loop

----------------------------------------------------------------------------
(* Characters and texts *)

Espacios == {" ", "\n", "\t"}      \* the characters \s matches that the texts use
EsEspacio(c) == c \in Espacios

Domicilio == <<"D", "o", "m", "i", "c", "i", "l", "i", "o", ":">>
JMB == <<"J", "M", "B", "-">>

Rep(c, n) == [i \in 1..n |-> c]

\* whether the literal lit stands in t at position i
Literal(t, i, lit) ==
    /\ i >= 1
    /\ i + Len(lit) - 1 <= Len(t)
    /\ \A j \in 1..Len(lit) : t[i + j - 1] = lit[j]

----------------------------------------------------------------------------
(* patronDomicilio = /Domicilio:\s*(JMB-[^\s]+)/ and its exec / match *)

SinCoincidencia == [hay |-> FALSE, grupo |-> <<>>]

\* \s* : greedy, returns the first position after the run of whitespace
RECURSIVE SaltaEspacios(_, _)
SaltaEspacios(t, j) ==
    IF j <= Len(t) /\ EsEspacio(t[j]) THEN SaltaEspacios(t, j + 1) ELSE j

\* [^\s]+ : greedy, returns the first position after the run of non-whitespace
RECURSIVE FinNoEspacios(_, _)
FinNoEspacios(t, j) ==
    IF j <= Len(t) /\ ~EsEspacio(t[j]) THEN FinNoEspacios(t, j + 1) ELSE j

\* A variant that does not let whitespace stand between the label and the token.
IntentaEnSinEspacios(t, i) ==
    IF ~Literal(t, i, Domicilio) THEN SinCoincidencia
    ELSE LET k == i + Len(Domicilio) IN
         IF ~Literal(t, k, JMB) THEN SinCoincidencia
         ELSE LET n == FinNoEspacios(t, k + Len(JMB)) IN
              IF n = k + Len(JMB) THEN SinCoincidencia
              ELSE [hay |-> TRUE, grupo |-> SubSeq(t, k, n - 1)]

\* The match attempt anchored at position i. Backtracking cannot change the
\* result: after giving back whitespace the next character is whitespace, not
\* "J", and nothing follows [^\s]+ in the pattern.
IntentaEn(t, i) ==
    IF ~Literal(t, i, Domicilio) THEN SinCoincidencia
    ELSE LET k == SaltaEspacios(t, i + Len(Domicilio)) IN
         IF ~Literal(t, k, JMB) THEN SinCoincidencia
         ELSE LET n == FinNoEspacios(t, k + Len(JMB)) IN
              IF n = k + Len(JMB) THEN SinCoincidencia
              ELSE [hay |-> TRUE, grupo |-> SubSeq(t, k, n - 1)]

\* exec without the g flag: try every start position from the left, first match wins
RECURSIVE ExecDesde(_, _)
ExecDesde(t, i) ==
    IF i > Len(t) THEN SinCoincidencia
    ELSE IF IntentaEn(t, i).hay THEN IntentaEn(t, i)
    ELSE ExecDesde(t, i + 1)

PatronDomicilioExec(t) == ExecDesde(t, 1)

\* if (coincidencia && coincidencia[1])
HayDomicilio(c) == c.hay /\ c.grupo /= <<>>

----------------------------------------------------------------------------
(* Texts the pattern is run on *)

Ejemplo1 == Domicilio \o <<" ">> \o JMB \o <<"1", "2", "3", "4", "5", " ", "e", "x", "t", "r", "a">>
Ejemplo2 == Domicilio \o JMB \o <<"A", "B", "2">>
Ejemplo3 == <<"T", "o", "t", "a", "l", " ">> \o JMB \o <<"9">>

Fragmentos ==
    { Domicilio, JMB, <<" ">>, <<"\n">>, <<"7">>, <<"J", "M">>,
      <<"D", "o", "m", "i", "c", "i", "l", "i", "o">>,
      Domicilio \o <<" ">> \o JMB \o <<"1">> }

RECURSIVE Concatenaciones(_)
Concatenaciones(n) ==
    IF n = 0 THEN {<<>>}
    ELSE LET menos == Concatenaciones(n - 1) IN
         menos \cup {a \o f : a \in menos, f \in Fragmentos}

Textos == Concatenaciones(MaxFragmentos) \cup {Ejemplo1, Ejemplo2, Ejemplo3}

----------------------------------------------------------------------------
(* Values the variables of a part hold while another part runs *)

SinSalida == [tipo |-> "ninguna", clase |-> "ninguna", ticket |-> 0,
              domicilio |-> <<>>, mensaje |-> "ninguno"]
SinResultado == [ok |-> FALSE, causa |-> "ninguno", text |-> <<>>]
SinObservacion == [desde |-> 0, reviewer |-> "ninguno", click |-> "ninguno",
                   qf |-> "ninguno", prev |-> "ninguno", texto |-> <<>>]
\* filtrado: filtrarPorCliente was called since the list page was last loaded;
\* abierta: a detail view was opened and procesarPaginaDeTarea has not run on it;
\* vueltas: calls of volverALaLista since the last search; paso: the last call
\* procesarTareas made; nav: how the reload or goto of that call and its
\* waitForLoadState ended; enlace: the answer to the wait for a VIEW link in
\* that call; fila, recargo: the answer to the last search's wait for a task
\* row, and whether that search reloaded.
SinHistoria == [filtrado |-> TRUE, abierta |-> FALSE, vueltas |-> 0,
                paso |-> "ninguno", nav |-> "ninguna", enlace |-> "ninguno",
                fila |-> "ninguno", recargo |-> FALSE]

\* the instructions actWithCache is called with and the actions observe gives
Instrucciones == {"i1", "i2"}
Acciones == {"A1", "A2"}
AUSENTE == "ausente"        \* no entry under the instruction in cache.json
UNDEFINED == "undefined"    \* results[0] of an empty array

SinLlamada == [instruccion |-> "ninguna", antes |-> [i \in Instrucciones |-> AUSENTE],
               leida |-> NULL, observaciones |-> 0, results |-> <<>>, escrita |-> FALSE,
               actos |-> <<>>, salida |-> "ninguna"]

CacheEnReposo ==
    /\ cache = [i \in Instrucciones |-> AUSENTE]
    /\ llamada = SinLlamada

PatronEnReposo ==
    /\ xpc = "reposo"
    /\ texto = <<>>
    /\ coincidencia = SinCoincidencia

OCREnReposo ==
    /\ opc = "reposo"
    /\ modo = "rutas"
    /\ lista = [nula |-> FALSE, elems |-> <<>>]
    /\ idx = 0
    /\ maxLongitudTexto = -1
    /\ mejorCandidato = 0
    /\ resultados = <<>>
    /\ resFinal = SinResultado
    /\ creados = 0
    /\ terminateCalls = 0
    /\ terminados = 0
    /\ reconocimientos = 0
    /\ salida = SinSalida

BucleEnReposo ==
    /\ pc = "reposo"
    /\ taskId = [nulo |-> TRUE, id |-> <<>>]
    /\ log = <<>>
    /\ procesadas = <<>>
    /\ pagina = "lista"
    /\ filtro = FALSE
    /\ obs = SinObservacion
    /\ hist = SinHistoria

----------------------------------------------------------------------------
(* SpecPatron: the pattern applied to a text *)

InitPatron ==
    /\ xpc = "entrada"
    /\ texto \in Textos
    /\ coincidencia = SinCoincidencia
    /\ OCREnReposo
    /\ BucleEnReposo
    /\ CacheEnReposo

\* const coincidencia = patronDomicilio.exec(textoFinal)
Extraer ==
    /\ xpc = "entrada"
    /\ coincidencia' = PatronDomicilioExec(texto)
    /\ xpc' = "hecho"
    /\ UNCHANGED <<texto, varsOCR, varsBucle, varsCache>>

NextPatron == Extraer

SpecPatron == InitPatron /\ [][NextPatron]_vars

----------------------------------------------------------------------------
(* SpecOCR: encontrarYExtraerInfoTicket (modo "rutas") and analizarTareaActual
   (modo "pantalla"). Images are named by their index in the list. What the
   OCR engine and the browser answer is chosen by the environment at each call:
   a recognition may fail or give any of TextosOCR, a screenshot may fail,
   createWorker and worker.terminate may reject. *)

Recibo120 ==
    Rep("x", 50) \o <<"\n">> \o Domicilio \o <<" ">> \o JMB \o <<"7", "7", "8", "8">>
        \o <<"\n">> \o Rep("y", 49)
Recibo80 == Rep("z", 80)
Blanco == <<>>

TextosOCR == {Blanco, Recibo80, Recibo120, Ejemplo2}

Texto(t) == [ok |-> TRUE, causa |-> "ninguno", text |-> t]
Fallo(c) == [ok |-> FALSE, causa |-> c, text |-> <<>>]

\* what "await elemento.screenshot(); await worker.recognize(...)" can produce
\* (without the screenshot in modo "rutas")
RespuestasOCR(m) ==
    {Texto(t) : t \in TextosOCR} \cup {Fallo("recognize")}
        \cup (IF m = "pantalla" THEN {Fallo("screenshot")} ELSE {})

\* number of worker.recognize calls a response stands for
LlamadasRecognize(r) == IF r.causa = "screenshot" THEN 0 ELSE 1

Retorno(clase, ticket, domicilio, mensaje) ==
    [tipo |-> "retorno", clase |-> clase, ticket |-> ticket,
     domicilio |-> domicilio, mensaje |-> mensaje]
Excepcion(origen) ==
    [tipo |-> "excepcion", clase |-> origen, ticket |-> 0,
     domicilio |-> <<>>, mensaje |-> origen]

Listas ==
    {[nula |-> TRUE, elems |-> <<>>]}
        \cup {[nula |-> FALSE, elems |-> [i \in 1..n |-> i]] : n \in 0..MaxImagenes}

InitOCR ==
    /\ opc = "entrada"
    /\ modo \in {"rutas", "pantalla"}
    /\ lista \in {l \in Listas : modo = "pantalla" => ~l.nula}
    /\ idx = 0
    /\ maxLongitudTexto = -1
    /\ mejorCandidato = 0
    /\ resultados = <<>>
    /\ resFinal = SinResultado
    /\ creados = 0
    /\ terminateCalls = 0
    /\ terminados = 0
    /\ reconocimientos = 0
    /\ salida = SinSalida
    /\ PatronEnReposo
    /\ BucleEnReposo
    /\ CacheEnReposo

\* A variant that goes on to create the worker whatever the list holds.
EntradaRutasSinControl ==
    /\ opc = "entrada"
    /\ modo = "rutas"
    /\ opc' = "crear"
    /\ UNCHANGED <<modo, lista, idx, maxLongitudTexto, mejorCandidato, resultados,
                   resFinal, creados, terminateCalls, terminados, reconocimientos, salida>>
    /\ UNCHANGED <<varsPatron, varsBucle, varsCache>>

\* encontrarYExtraerInfoTicket, lines 14-16
EntradaRutas ==
    /\ opc = "entrada"
    /\ modo = "rutas"
    /\ IF lista.nula \/ Len(lista.elems) = 0
       THEN /\ salida' = Retorno("lista_vacia", 0, <<>>, "ninguno")
            /\ opc' = "fin"
       ELSE /\ opc' = "crear"
            /\ UNCHANGED salida
    /\ UNCHANGED <<modo, lista, idx, maxLongitudTexto, mejorCandidato, resultados,
                   resFinal, creados, terminateCalls, terminados, reconocimientos>>
    /\ UNCHANGED <<varsPatron, varsBucle, varsCache>>

\* analizarTareaActual, lines 86-101
EntradaPantalla ==
    /\ opc = "entrada"
    /\ modo = "pantalla"
    /\ \E contenedorVisible \in BOOLEAN :
          IF ~contenedorVisible
          THEN /\ salida' = Excepcion("contenedor")
               /\ opc' = "fin"
          ELSE IF Len(lista.elems) = 0
          THEN /\ salida' = Retorno("sin_evidencias", 0, <<>>, "ninguno")
               /\ opc' = "fin"
          ELSE /\ opc' = "crear"
               /\ UNCHANGED salida
    /\ UNCHANGED <<modo, lista, idx, maxLongitudTexto, mejorCandidato, resultados,
                   resFinal, creados, terminateCalls, terminados, reconocimientos>>
    /\ UNCHANGED <<varsPatron, varsBucle, varsCache>>

\* const worker = await createWorker('spa'), lines 20 and 108: outside any try
CrearWorker ==
    /\ opc = "crear"
    /\ \E ok \in BOOLEAN :
          IF ok
          THEN /\ creados' = creados + 1
               /\ idx' = 1
               /\ opc' = "bucle"
               /\ UNCHANGED salida
          ELSE /\ salida' = Excepcion("createWorker")
               /\ opc' = "fin"
               /\ UNCHANGED <<creados, idx>>
    /\ UNCHANGED <<modo, lista, maxLongitudTexto, mejorCandidato, resultados,
                   resFinal, terminateCalls, terminados, reconocimientos>>
    /\ UNCHANGED <<varsPatron, varsBucle, varsCache>>

\* A variant of the comparison that lets a later image of equal length win.
SuperaMaximoConEmpate(longitud, maximo) == longitud >= maximo

\* A variant in which the comparison of the on-screen entry lets ties win.
SuperaMaximoSegunModo(longitud, maximo) ==
    IF modo = "pantalla" THEN longitud >= maximo ELSE longitud > maximo

\* if (text.length > maxLongitudTexto)
SuperaMaximo(longitud, maximo) == longitud > maximo

\* one iteration of the for loop, lines 24-35 and 110-130
AnalizarImagen ==
    /\ opc = "bucle"
    /\ idx <= Len(lista.elems)
    /\ \E r \in RespuestasOCR(modo) :
          /\ resultados' = Append(resultados, r)
          /\ reconocimientos' = reconocimientos + LlamadasRecognize(r)
          /\ IF r.ok /\ SuperaMaximo(Len(r.text), maxLongitudTexto)
             THEN /\ maxLongitudTexto' = Len(r.text)
                  /\ mejorCandidato' = lista.elems[idx]
             ELSE UNCHANGED <<maxLongitudTexto, mejorCandidato>>
    /\ idx' = idx + 1
    /\ UNCHANGED <<opc, modo, lista, resFinal, creados, terminateCalls, terminados, salida>>
    /\ UNCHANGED <<varsPatron, varsBucle, varsCache>>

\* if (!mejorCandidato) { await worker.terminate(); return {error} }, lines 37-40
\* and 132-135: the terminate is outside any try
SinCandidato ==
    /\ opc = "bucle"
    /\ idx > Len(lista.elems)
    /\ mejorCandidato = 0
    /\ terminateCalls' = terminateCalls + 1
    /\ \E ok \in BOOLEAN :
          IF ok
          THEN /\ terminados' = terminados + 1
               /\ salida' = Retorno("sin_ticket", 0, <<>>, "ninguno")
          ELSE /\ salida' = Excepcion("terminate")
               /\ UNCHANGED terminados
    /\ opc' = "fin"
    /\ UNCHANGED <<modo, lista, idx, maxLongitudTexto, mejorCandidato, resultados,
                   resFinal, creados, reconocimientos>>
    /\ UNCHANGED <<varsPatron, varsBucle, varsCache>>

\* the value returned from inside the try, lines 52-65 and 153-165; the screen
\* variant's result carries no ticket
ResultadoExtraccion(c) ==
    IF HayDomicilio(c)
    THEN Retorno("exito", IF modo = "rutas" THEN mejorCandidato ELSE 0, c.grupo, "ninguno")
    ELSE Retorno("sin_domicilio", IF modo = "rutas" THEN mejorCandidato ELSE 0, <<>>, "ninguno")

\* try { final screenshot; final recognize; match; terminate; return }
\* catch (e) { terminate; return {error: e.message} }, lines 45-71 and 141-170.
\* t1 is the outcome of the terminate inside the try, t2 of the one in the catch.
ExtraccionFinal ==
    /\ opc = "bucle"
    /\ idx > Len(lista.elems)
    /\ mejorCandidato /= 0
    /\ \E r \in RespuestasOCR(modo), t1 \in BOOLEAN, t2 \in BOOLEAN :
          /\ resFinal' = r
          /\ reconocimientos' = reconocimientos + LlamadasRecognize(r)
          /\ coincidencia' = IF r.ok THEN PatronDomicilioExec(r.text) ELSE SinCoincidencia
          /\ IF r.ok /\ t1
             THEN \* the try block runs to its return
                  /\ terminateCalls' = terminateCalls + 1
                  /\ terminados' = terminados + 1
                  /\ salida' = ResultadoExtraccion(coincidencia')
             ELSE \* the catch block runs: after a failed screenshot or
                  \* recognize, or after the try's own terminate rejected
                  /\ terminateCalls' = terminateCalls + (IF r.ok THEN 2 ELSE 1)
                  /\ terminados' = terminados + (IF t2 THEN 1 ELSE 0)
                  /\ salida' = IF t2
                               THEN Retorno("error_final", 0, <<>>,
                                            IF r.ok THEN "terminate" ELSE r.causa)
                               ELSE Excepcion("terminate")
    /\ opc' = "fin"
    /\ UNCHANGED <<modo, lista, idx, maxLongitudTexto, mejorCandidato, resultados, creados>>
    /\ UNCHANGED <<xpc, texto, varsBucle, varsCache>>

NextOCR ==
    \/ EntradaRutas
    \/ EntradaPantalla
    \/ CrearWorker
    \/ AnalizarImagen
    \/ SinCandidato
    \/ ExtraccionFinal

SpecOCR == InitOCR /\ [][NextOCR]_vars

----------------------------------------------------------------------------
(* C10 *)

\* An occurrence of the pattern in t: the label at i, only whitespace from the
\* end of the label to k, "JMB-" at k, and then a non-empty run of
\* non-whitespace characters that ends at e (the end of t or a whitespace follows).
OcurreEn(t, i, k, e) ==
    /\ Literal(t, i, Domicilio)
    /\ k >= i + Len(Domicilio)
    /\ \A j \in (i + Len(Domicilio))..(k - 1) : EsEspacio(t[j])
    /\ Literal(t, k, JMB)
    /\ e >= k + Len(JMB)
    /\ e <= Len(t)
    /\ \A j \in (k + Len(JMB))..e : ~EsEspacio(t[j])
    /\ (e = Len(t) \/ EsEspacio(t[e + 1]))

HayOcurrencia(t, i) ==
    /\ Literal(t, i, Domicilio)
    /\ \E k \in (i + Len(Domicilio))..Len(t) :
          /\ Literal(t, k, JMB)
          /\ \E e \in (k + Len(JMB))..Len(t) : OcurreEn(t, i, k, e)

\* C10: the extractor returns the token of the leftmost occurrence of
\* "Domicilio:", optional whitespace, and a token that starts with "JMB-",
\* has at least one more character and runs up to the next whitespace (or the
\* end of the text); it returns no match exactly when the text has no such
\* occurrence. The spec's three examples give "JMB-12345", "JMB-AB2" and no
\* match; every returned token begins with "JMB-" and holds no whitespace.
C10_ExtractorPrimeraOcurrencia ==
    xpc = "hecho" =>
        /\ coincidencia.hay <=> \E i \in 1..Len(texto) : HayOcurrencia(texto, i)
        /\ coincidencia.hay =>
              \E i \in 1..Len(texto) :
                  /\ HayOcurrencia(texto, i)
                  /\ \A i2 \in 1..(i - 1) : ~HayOcurrencia(texto, i2)
                  /\ \E k \in (i + Len(Domicilio))..Len(texto) :
                        \E e \in (k + Len(JMB))..Len(texto) :
                            /\ OcurreEn(texto, i, k, e)
                            /\ coincidencia.grupo = SubSeq(texto, k, e)
        /\ coincidencia.hay =>
              /\ Literal(coincidencia.grupo, 1, JMB)
              /\ \A j \in 1..Len(coincidencia.grupo) : ~EsEspacio(coincidencia.grupo[j])
        /\ ~coincidencia.hay => coincidencia.grupo = <<>>
        /\ (\A i \in 1..Len(texto) : ~Literal(texto, i, Domicilio)) => ~coincidencia.hay
        /\ texto = Ejemplo1 =>
              coincidencia = [hay |-> TRUE, grupo |-> JMB \o <<"1", "2", "3", "4", "5">>]
        /\ texto = Ejemplo2 =>
              coincidencia = [hay |-> TRUE, grupo |-> JMB \o <<"A", "B", "2">>]
        /\ texto = Ejemplo3 => coincidencia = SinCoincidencia

\* A text with two occurrences whose tokens differ, the first one after
\* whitespace: the extractor has returned the first token.
C10_Witness ==
    /\ xpc = "hecho"
    /\ coincidencia.hay
    /\ \E i \in 1..Len(texto), i2 \in 1..Len(texto) :
          /\ i < i2
          /\ HayOcurrencia(texto, i)
          /\ HayOcurrencia(texto, i2)
          /\ ~Literal(texto, i + Len(Domicilio), JMB)
          /\ IntentaEn(texto, i2).grupo /= coincidencia.grupo

----------------------------------------------------------------------------
(* C4 - C9: the OCR pipeline *)

ListaVacia == lista.nula \/ Len(lista.elems) = 0
Reconocidas == {i \in 1..Len(resultados) : resultados[i].ok}
BucleTerminado == opc \in {"bucle", "fin"} /\ creados = 1 /\ idx > Len(lista.elems)

\* C4: every OCR worker that was created has had terminate called on it
\* exactly once when the function exits, on every exit path.
C4_TerminateUnaVez ==
    opc = "fin" =>
        /\ creados = 1 => terminateCalls = 1
        /\ creados = 0 => terminateCalls = 0

\* C5: for a non-empty list encontrarYExtraerInfoTicket ends by returning one
\* of its outcome variants, whichever OCR calls fail, and never by throwing; a
\* failed final OCR gives the error outcome carrying the failure's message.
C5_NuncaLanza ==
    (opc = "fin" /\ modo = "rutas" /\ ~ListaVacia) =>
        /\ salida.tipo = "retorno"
        /\ salida.clase \in {"exito", "sin_domicilio", "sin_ticket", "error_final"}
        /\ (mejorCandidato /= 0 /\ ~resFinal.ok) =>
              (salida.clase = "error_final" /\ salida.mensaje = resFinal.causa)

\* C6: the candidate is the lowest-index image whose text length is the
\* greatest among the images recognised so far (none when none was
\* recognised); an image of 0 characters is a candidate when nothing is longer.
C6_PrimerMaximo ==
    (opc \in {"bucle", "fin"} /\ creados = 1) =>
        /\ Len(resultados) = idx - 1
        /\ IF Reconocidas = {}
           THEN mejorCandidato = 0 /\ maxLongitudTexto = -1
           ELSE /\ mejorCandidato \in Reconocidas
                /\ maxLongitudTexto = Len(resultados[mejorCandidato].text)
                /\ \A j \in Reconocidas :
                      /\ Len(resultados[j].text) <= maxLongitudTexto
                      /\ j < mejorCandidato => Len(resultados[j].text) < maxLongitudTexto

\* Two recognised images share the greatest length, a third one failed, and the
\* loop has kept the earlier of the two.
C6_Witness ==
    /\ BucleTerminado
    /\ \E i \in Reconocidas, j \in Reconocidas :
          /\ i < j
          /\ Len(resultados[i].text) = Len(resultados[j].text)
          /\ Len(resultados[i].text) = maxLongitudTexto
          /\ mejorCandidato = i
    /\ \E k \in 1..Len(resultados) : ~resultados[k].ok

\* C7: encontrarYExtraerInfoTicket reports "no valid ticket" if and only if
\* the OCR failed for every image of the list; when one image at least was
\* recognised a candidate is chosen among the recognised ones.
C7_SinTicketSiiTodasFallan ==
    (opc = "fin" /\ modo = "rutas" /\ creados = 1) =>
        /\ salida = Retorno("sin_ticket", 0, <<>>, "ninguno") <=> Reconocidas = {}
        /\ Reconocidas /= {} => mejorCandidato \in Reconocidas

\* C8: with an empty or missing list encontrarYExtraerInfoTicket returns its
\* error outcome at once: no worker is created and nothing is recognised; and
\* analizarTareaActual, having found zero thumbnails, returns an error result
\* without creating a worker.
C8_ListaVaciaSinWorker ==
    ListaVacia =>
        /\ opc \in {"entrada", "fin"}
        /\ creados = 0
        /\ reconocimientos = 0
        /\ terminateCalls = 0
        /\ (opc = "fin" /\ modo = "rutas") =>
              salida = Retorno("lista_vacia", 0, <<>>, "ninguno")
        /\ (opc = "fin" /\ modo = "pantalla" /\ salida.clase /= "contenedor") =>
              salida = Retorno("sin_evidencias", 0, <<>>, "ninguno")

\* encontrarYExtraerInfoTicket has returned for a missing list.
C8_Witness ==
    /\ opc = "fin"
    /\ modo = "rutas"
    /\ lista.nula
    /\ salida.tipo = "retorno"

\* C9: when a candidate exists and the final OCR succeeds,
\* encontrarYExtraerInfoTicket returns Success with the winning image and the
\* address code matched in the final text, and CandidateFoundNoAddress with the
\* winning image when the final text holds no match.
C9_ExitoOSinDomicilio ==
    (opc = "fin" /\ modo = "rutas" /\ mejorCandidato /= 0 /\ resFinal.ok) =>
        IF \E i \in 1..Len(resFinal.text) : HayOcurrencia(resFinal.text, i)
        THEN /\ salida.tipo = "retorno"
             /\ salida.clase = "exito"
             /\ salida.ticket = mejorCandidato
             /\ salida.domicilio = PatronDomicilioExec(resFinal.text).grupo
             /\ resFinal.text = Recibo120 => salida.domicilio = JMB \o <<"7", "7", "8", "8">>
        ELSE /\ salida.tipo = "retorno"
             /\ salida.clase = "sin_domicilio"
             /\ salida.ticket = mejorCandidato

----------------------------------------------------------------------------
(* Spec: procesarTareas and the functions it calls. Every answer of the
   browser (a wait that times out, a click or a navigation that throws, the
   text of a field) is chosen by the environment at the call. The appendFile
   of Registrotareas is taken to succeed; its catch only prints. *)

Nulo == [nulo |-> TRUE, id |-> <<>>]
Cadena(t) == [nulo |-> FALSE, id |-> t]

\* if (taskId) : null and the empty string are falsy
Verdadero(v) == ~v.nulo /\ v.id /= <<>>

\* String.prototype.trim
RECURSIVE TrimIzquierda(_)
TrimIzquierda(t) ==
    IF t /= <<>> /\ EsEspacio(Head(t)) THEN TrimIzquierda(Tail(t)) ELSE t
RECURSIVE TrimDerecha(_)
TrimDerecha(t) ==
    IF t /= <<>> /\ EsEspacio(t[Len(t)]) THEN TrimDerecha(SubSeq(t, 1, Len(t) - 1)) ELSE t
Trim(t) == TrimDerecha(TrimIzquierda(t))

\* reviewerText.includes('@')
Incluye(t, c) == \E i \in 1..Len(t) : t[i] = c

\* reviewerText.replace('Reviewer:', '') : removes the first occurrence only
EtiquetaReviewer == <<"R", "e", "v", "i", "e", "w", "e", "r", ":">>
RECURSIVE QuitaPrimera(_, _, _)
QuitaPrimera(t, lit, i) ==
    IF i > Len(t) THEN t
    ELSE IF Literal(t, i, lit)
         THEN SubSeq(t, 1, i - 1) \o SubSeq(t, i + Len(lit), Len(t))
         ELSE QuitaPrimera(t, lit, i + 1)
\* A variant that keeps the label in the reviewer it logs.
RevisorConEtiqueta(t) == Trim(t)

\* reviewerText.replace('Reviewer:', '').trim(), line 427
Revisor(t) == Trim(QuitaPrimera(t, EtiquetaReviewer, 1))

\* what idCell.textContent() can give: null, or the text of the cell
IdT1 == <<"T", "1">>
IdT2 == <<"T", "2">>
TextosDeId == {Nulo, Cadena(<<>>), Cadena(<<" ">>), Cadena(IdT1), Cadena(<<" ">> \o IdT2 \o <<"\n">>)}

\* what reviewerElement.textContent() can give
TextosDeReviewer ==
    { Nulo, Cadena(EtiquetaReviewer), Cadena(EtiquetaReviewer \o <<" ">>),
      Cadena(EtiquetaReviewer \o <<" ", "a", "@", "b", " ">>) }

EstadoQF == "Ya aprobada por otro usuario (Quest Completion Failed)"
EstadoPrevia == "Ya aprobada previamente por otro usuario"
EstadoAprobada == "Aprobada"
EstadoSinReviewer == "Error - No se encontró Reviewer"
EstadoYaRevisada == "Ya revisada por"

\* Registrotareas(taskId, status): one line appended to revisiones.log
Registrotareas(l, id, estado, detalle) ==
    Append(l, [id |-> id, estado |-> estado, detalle |-> detalle])

\* How a navigation step can go: "ok"; "navegacion", when page.goto or
\* page.reload throws; "carga", when the waitForLoadState after it throws.
Navegaciones == {"ok", "navegacion", "carga"}

\* volverALaLista, lines 509-519. filtrarPorCliente swallows its failures, so
\* the filter is applied (filtroOk) or it is not; the wait for the first VIEW
\* link times out silently. Returns whether the function threw and what the
\* browser shows afterwards.
VolverALaLista(nav, filtroOk) ==
    IF nav = "navegacion" THEN [lanza |-> TRUE, pagina |-> "error", filtro |-> FALSE]
    ELSE [lanza |-> nav = "carga", pagina |-> "lista", filtro |-> filtroOk]

\* manejarAprobacionPostClick, lines 441-466. qf and prev are what the two
\* waits answer ("visible" | "timeout"); nav1, f1 and nav2, f2 are the answers
\* to the volverALaLista of the first and of the second try block. Returns the
\* log, whether the second wait ran, the browser's state and the number of
\* calls of volverALaLista it made; it never throws.
ManejarAprobacionPostClick(l, id, qf, prev, nav1, f1, nav2, f2) ==
    LET l1 == Registrotareas(l, id, EstadoQF, <<>>)
        v1 == VolverALaLista(nav1, f1)
        \* the outer try block threw: the wait timed out, or volverALaLista threw
        enCatch == qf /= "visible" \/ v1.lanza
        l0 == IF qf = "visible" THEN l1 ELSE l
        p0 == IF qf = "visible" THEN v1 ELSE [lanza |-> FALSE, pagina |-> "detalle", filtro |-> FALSE]
        l2 == Registrotareas(l0, id, EstadoPrevia, <<>>)
        v2 == VolverALaLista(nav2, f2)
        n0 == IF qf = "visible" THEN 1 ELSE 0
    IN  IF ~enCatch
        THEN [log |-> l1, prev |-> "ninguno", v |-> v1, vueltas |-> 1]
        ELSE IF prev = "visible" /\ ~v2.lanza
        THEN [log |-> l2, prev |-> prev, v |-> v2, vueltas |-> n0 + 1]
        ELSE IF prev = "visible"
        THEN [log |-> Registrotareas(l2, id, EstadoAprobada, <<>>), prev |-> prev,
              v |-> [v2 EXCEPT !.lanza = FALSE], vueltas |-> n0 + 1]
        ELSE [log |-> Registrotareas(l0, id, EstadoAprobada, <<>>), prev |-> prev,
              v |-> [p0 EXCEPT !.lanza = FALSE], vueltas |-> n0]

\* A variant that takes a Reviewer field that never shows for one without
\* reviewer.
VerificarSinEspera(campo, reviewer) ==
    IF campo = "visible" /\ ~reviewer.nulo /\ Incluye(reviewer.id, "@") THEN "revisada" ELSE "pendiente"

\* verificarTareaAprobada, lines 418-433: "lanza" when the wait for the
\* Reviewer field times out, "revisada" when it logs and returns true,
\* "pendiente" when it returns false.
VerificarTareaAprobada(campo, reviewer) ==
    IF campo = "timeout" THEN "lanza"
    ELSE IF ~reviewer.nulo /\ Incluye(reviewer.id, "@") THEN "revisada"
    ELSE "pendiente"

InitBucle ==
    /\ pc = "buscar"
    /\ taskId = Nulo
    /\ log = <<>>
    /\ procesadas = <<>>
    /\ pagina = "lista"
    /\ filtro \in BOOLEAN
    /\ obs = SinObservacion
    /\ hist = SinHistoria
    /\ PatronEnReposo
    /\ OCREnReposo
    /\ CacheEnReposo

\* const taskId = await abrirSiguienteTarea(page); if (taskId) ..., lines 383-410
\* and 558-559. fila is the answer to the wait for a task row, lectura whether
\* textContent resolves and celda its value, click whether the click on VIEW
\* resolves, recarga how the reload of the catch block goes. A task row is
\* visible only on the list page, and the environment holds MaxTareas tasks.
AbrirSiguienteTarea ==
    /\ pc = "buscar"
    /\ \E fila \in {"visible", "timeout"}, lectura \in BOOLEAN, celda \in TextosDeId,
          click \in BOOLEAN, recarga \in Navegaciones :
          LET leida == fila = "visible" /\ lectura
              abierta == leida /\ Verdadero(celda) /\ click
              devuelto == Cadena(Trim(celda.id))
          IN  /\ fila = "visible" => pagina = "lista"
              /\ (abierta /\ Verdadero(devuelto)) => Len(procesadas) < MaxTareas
              /\ IF leida /\ ~Verdadero(celda)
                 THEN \* if (!taskId) return null
                      /\ taskId' = Nulo
                      /\ pc' = "buscar"
                      /\ hist' = [hist EXCEPT !.vueltas = 0, !.fila = fila, !.recargo = FALSE,
                                              !.paso = "buscar", !.nav = "ninguna",
                                              !.enlace = "ninguno"]
                      /\ UNCHANGED <<pagina, filtro>>
                 ELSE IF abierta
                 THEN \* the VIEW link is clicked; return taskId.trim()
                      /\ pagina' = "detalle"
                      /\ filtro' = FALSE
                      /\ hist' = [hist EXCEPT !.vueltas = 0, !.fila = fila, !.recargo = FALSE,
                                              !.paso = "buscar", !.nav = "ninguna",
                                              !.enlace = "ninguno",
                                              !.filtrado = FALSE, !.abierta = TRUE]
                      /\ IF Verdadero(devuelto)
                         THEN taskId' = devuelto /\ pc' = "procesar"
                         ELSE taskId' = Nulo /\ pc' = "buscar"
                 ELSE \* catch: the wait, textContent or the click threw
                      /\ taskId' = Nulo
                      /\ pagina' = IF recarga = "navegacion" THEN "error" ELSE pagina
                      /\ filtro' = FALSE
                      /\ hist' = [hist EXCEPT !.vueltas = 0, !.fila = fila, !.recargo = TRUE,
                                              !.paso = "buscar", !.nav = recarga,
                                              !.enlace = "ninguno", !.filtrado = FALSE]
                      /\ pc' = IF recarga = "ok" THEN "buscar" ELSE "recuperar"
    /\ UNCHANGED <<log, procesadas, obs>>
    /\ UNCHANGED <<varsPatron, varsOCR, varsCache>>

\* procesarPaginaDeTarea(page, taskId, cliente), lines 488-502, with
\* verificarTareaAprobada (418-433), aprobarTarea (474-481) and
\* manejarAprobacionPostClick (441-466). campo is the answer to the wait for
\* the Reviewer field and reviewer its text; click whether the click on
\* Approve resolves; the rest are the answers manejarAprobacionPostClick gets.
ProcesarPaginaDeTarea ==
    /\ pc = "procesar"
    /\ \E campo \in {"visible", "timeout"}, reviewer \in TextosDeReviewer, click \in BOOLEAN,
          qf \in {"visible", "timeout"}, prev \in {"visible", "timeout"},
          nav1 \in Navegaciones, f1 \in BOOLEAN, nav2 \in Navegaciones, f2 \in BOOLEAN :
          LET verificada == VerificarTareaAprobada(campo, reviewer)
              m == ManejarAprobacionPostClick(log, taskId.id, qf, prev, nav1, f1, nav2, f2)
              base == [desde |-> Len(log), reviewer |-> campo, click |-> "ninguno",
                       qf |-> "ninguno", prev |-> "ninguno", texto |-> <<>>]
              h == [hist EXCEPT !.abierta = FALSE, !.vueltas = 0, !.paso = "procesar",
                                !.nav = "ninguna", !.enlace = "ninguno"]
          IN  IF verificada = "lanza"
              THEN \* reviewerElement.waitFor throws: the catch of line 498
                   /\ log' = Registrotareas(log, taskId.id, EstadoSinReviewer, <<>>)
                   /\ obs' = base
                   /\ hist' = h
                   /\ UNCHANGED <<pagina, filtro>>
              ELSE IF verificada = "revisada"
              THEN /\ log' = Registrotareas(log, taskId.id, EstadoYaRevisada, Revisor(reviewer.id))
                   /\ obs' = [base EXCEPT !.reviewer = "revisada", !.texto = reviewer.id]
                   /\ hist' = h
                   /\ UNCHANGED <<pagina, filtro>>
              ELSE IF ~click
              THEN \* approveButton.click throws: the same catch of line 498
                   /\ log' = Registrotareas(log, taskId.id, EstadoSinReviewer, <<>>)
                   /\ obs' = [base EXCEPT !.click = "falla"]
                   /\ hist' = h
                   /\ UNCHANGED <<pagina, filtro>>
              ELSE /\ log' = m.log
                   /\ obs' = [base EXCEPT !.click = "ok", !.qf = qf, !.prev = m.prev]
                   /\ pagina' = m.v.pagina
                   /\ filtro' = m.v.filtro
                   /\ hist' = [h EXCEPT !.vueltas = m.vueltas,
                                        !.filtrado = (m.v.pagina = "lista")]
    /\ procesadas' = Append(procesadas, taskId.id)
    /\ pc' = "volver"
    /\ UNCHANGED taskId
    /\ UNCHANGED <<varsPatron, varsOCR, varsCache>>

\* await volverALaLista(page, cliente), line 561
\* A variant in which the timeout of the wait for a VIEW link is not caught.
PasoVolverSinAbsorber ==
    /\ pc = "volver"
    /\ \E nav \in Navegaciones, filtroOk \in BOOLEAN, enlace \in {"visible", "timeout"} :
          LET v == VolverALaLista(nav, filtroOk)
          IN  /\ pagina' = v.pagina
              /\ filtro' = v.filtro
              /\ hist' = [hist EXCEPT !.vueltas = hist.vueltas + 1,
                                      !.filtrado = (nav /= "navegacion"),
                                      !.paso = "volver", !.nav = nav,
                                      !.enlace = IF nav = "ok" THEN enlace ELSE "ninguno"]
              /\ pc' = IF v.lanza \/ enlace = "timeout" THEN "recuperar" ELSE "buscar"
    /\ taskId' = Nulo
    /\ UNCHANGED <<log, procesadas, obs>>
    /\ UNCHANGED <<varsPatron, varsOCR, varsCache>>

PasoVolverALaLista ==
    /\ pc = "volver"
    /\ \E nav \in Navegaciones, filtroOk \in BOOLEAN, enlace \in {"visible", "timeout"} :
          LET v == VolverALaLista(nav, filtroOk)
          IN  /\ pagina' = v.pagina
              /\ filtro' = v.filtro
              /\ hist' = [hist EXCEPT !.vueltas = hist.vueltas + 1,
                                      !.filtrado = (nav /= "navegacion"),
                                      !.paso = "volver", !.nav = nav,
                                      !.enlace = IF nav = "ok" THEN enlace ELSE "ninguno"]
              /\ pc' = IF v.lanza THEN "recuperar" ELSE "buscar"
    /\ taskId' = Nulo
    /\ UNCHANGED <<log, procesadas, obs>>
    /\ UNCHANGED <<varsPatron, varsOCR, varsCache>>

\* catch (error) { await recuperarEstado(page, cliente) }, lines 527-532 and
\* 563-566: the call is inside the catch block, so what it throws leaves
\* procesarTareas
RecuperarEstado ==
    /\ pc = "recuperar"
    /\ \E nav \in Navegaciones, filtroOk \in BOOLEAN :
          /\ pagina' = IF nav = "navegacion" THEN "error" ELSE "lista"
          /\ filtro' = (nav /= "navegacion" /\ filtroOk)
          /\ hist' = [hist EXCEPT !.filtrado = (nav /= "navegacion"), !.paso = "recuperar",
                                  !.nav = nav, !.enlace = "ninguno"]
          /\ pc' = IF nav = "ok" THEN "buscar" ELSE "lanzada"
    /\ UNCHANGED <<taskId, log, procesadas, obs>>
    /\ UNCHANGED <<varsPatron, varsOCR, varsCache>>

Next ==
    \/ AbrirSiguienteTarea
    \/ ProcesarPaginaDeTarea
    \/ PasoVolverALaLista
    \/ RecuperarEstado

Spec == InitBucle /\ [][Next]_vars

\* The same loop when every await settles: each wait is bounded by a timeout
\* and each navigation resolves or rejects, so a step that can be taken is
\* eventually taken.
SpecJusto == InitBucle /\ [][Next]_vars /\ WF_vars(Next)

----------------------------------------------------------------------------
(* C1 - C3: the review loop *)

\* the lines the last call of procesarPaginaDeTarea appended
RegistrosDeLaTarea == SubSeq(log, obs.desde + 1, Len(log))

\* C1: one record is appended per task processed, on every outcome branch:
\* after N tasks opened and processed the log holds N entries, in processing
\* order.
C1_UnRegistroPorTarea ==
    /\ Len(log) = Len(procesadas)
    /\ \A i \in 1..Len(log) : i <= Len(procesadas) => log[i].id = procesadas[i]

\* C2: after the approve click the first signal that appears decides the one
\* status logged: the Quest-Completion-Failed reason if that banner appeared,
\* else the previously-approved reason if that message appeared, and
\* "Aprobada" only if neither appeared.
C2_PrimeraSenalDecide ==
    (pc = "volver" /\ obs.click = "ok") =>
        /\ obs.qf = "visible" =>
              RegistrosDeLaTarea = <<[id |-> taskId.id, estado |-> EstadoQF, detalle |-> <<>>]>>
        /\ (obs.qf = "timeout" /\ obs.prev = "visible") =>
              RegistrosDeLaTarea = <<[id |-> taskId.id, estado |-> EstadoPrevia, detalle |-> <<>>]>>
        /\ (\E i \in 1..Len(RegistrosDeLaTarea) : RegistrosDeLaTarea[i].estado = EstadoAprobada)
              => (obs.qf = "timeout" /\ obs.prev = "timeout")

\* C3: procesarTareas never returns or throws, whatever the collaborators do,
\* failures during recuperarEstado included.
C3_ElBucleNoTermina == pc /= "lanzada"

(* C11 - C12: the Reviewer field *)

\* d is t without its first 'Reviewer:' label and without the whitespace
\* around what is left
EsRevisorDe(d, t) ==
    \E i \in 1..Len(t) :
        /\ Literal(t, i, EtiquetaReviewer)
        /\ \A j \in 1..(i - 1) : ~Literal(t, j, EtiquetaReviewer)
        /\ LET resto == SubSeq(t, 1, i - 1) \o SubSeq(t, i + Len(EtiquetaReviewer), Len(t))
           IN  \E a, b \in 0..Len(resto) :
                   /\ a + b + Len(d) = Len(resto)
                   /\ d = SubSeq(resto, a + 1, Len(resto) - b)
                   /\ \A k \in 1..a : EsEspacio(resto[k])
                   /\ \A k \in (Len(resto) - b + 1)..Len(resto) : EsEspacio(resto[k])
                   /\ d /= <<>> => (~EsEspacio(d[1]) /\ ~EsEspacio(d[Len(d)]))

C12_SinReviewerSeRegistraYSigue ==
    [][(pc = "procesar" /\ obs'.reviewer = "timeout") =>
          /\ obs'.click = "ninguno"
          /\ log' = Append(log, [id |-> taskId.id, estado |-> EstadoSinReviewer, detalle |-> <<>>])
          /\ pc' = "volver"]_vars

\* a task whose Reviewer field timed out was processed
C12_Witness ==
    /\ pc = "volver"
    /\ obs.reviewer = "timeout"
    /\ obs.click = "ninguno"
    /\ Len(log) > 0
    /\ log[Len(log)] = [id |-> taskId.id, estado |-> EstadoSinReviewer, detalle |-> <<>>]

(* C13 - C14: searching and opening *)

\* C13: every load of the list page by the loop (goto in volverALaLista, goto
\* in recuperarEstado, reload in abrirSiguienteTarea) is followed by a call of
\* filtrarPorCliente before the next task row is searched for.
C13_FiltroTrasCadaCarga ==
    (pc = "buscar" /\ pagina = "lista") => hist.filtrado

\* C14: abrirSiguienteTarea returns the task's identifier exactly when it
\* clicked VIEW, so every detail view opened is processed by
\* procesarPaginaDeTarea (and then followed by volverALaLista) before the
\* next search.
C14_AbiertaSiiDevuelveId ==
    hist.abierta <=> pc = "procesar"

(* C16 - C20: the loop around a task *)

\* C16: each processed task passes through the return to the list exactly
\* once: on every outcome branch volverALaLista is executed once between the
\* task's outcome being logged and the next search.
C16_UnaVueltaPorTarea ==
    (pc \in {"buscar", "recuperar"} /\ hist.paso = "volver") => hist.vueltas = 1

\* C17: a task whose Reviewer field did not show within the timeout is not
\* retried: once its 'Error - No se encontró Reviewer' record is logged, the
\* run never opens that same task again.
C17_SinReviewerNoSeReabre ==
    ~ /\ pc = "procesar"
      /\ obs.reviewer = "timeout"
      /\ Len(procesadas) > 0
      /\ procesadas[Len(procesadas)] = taskId.id
      /\ log[Len(log)] = [id |-> taskId.id, estado |-> EstadoSinReviewer, detalle |-> <<>>]

\* C18: procesarPaginaDeTarea never throws, and recuperarEstado is entered
\* only after a failed navigation (the reload of abrirSiguienteTarea or the
\* goto of volverALaLista, with the wait for the load that follows them),
\* never after a Reviewer timeout, a failed approve click, a race-loss
\* signal or a timeout of the wait for the list in volverALaLista.
C18_SoloNavegacionLlevaARecuperar ==
    /\ hist.paso = "procesar" => pc = "volver"
    /\ pc = "recuperar" =>
          /\ hist.paso \in {"buscar", "volver"}
          /\ hist.nav \in {"navegacion", "carga"}
    /\ (hist.paso = "volver" /\ hist.nav = "ok") => pc = "buscar"

\* a task whose approve click failed was logged, and the return to the list
\* whose wait for a VIEW link timed out went on to the next search
C18_Witness ==
    /\ pc = "buscar"
    /\ hist.paso = "volver"
    /\ hist.enlace = "timeout"
    /\ obs.click = "falla"
    /\ Len(log) > 0
    /\ log[Len(log)].estado = EstadoSinReviewer

\* C19: when no task row shows within the wait, abrirSiguienteTarea reloads the
\* page, returns null without opening or logging anything, and the loop
\* searches again: an empty list never stops the loop and never produces a
\* log record.
C19_BuscarNoEsTerminal ==
    /\ [](hist.fila = "timeout" => pc /= "lanzada")
    /\ [][(pc = "buscar" /\ hist'.fila = "timeout") =>
             /\ hist'.recargo
             /\ hist'.abierta = hist.abierta
             /\ taskId' = Nulo
             /\ log' = log
             /\ pc' \in {"buscar", "recuperar"}]_vars

\* C20: when every wait settles, every task that is opened eventually gets
\* its outcome record and the loop eventually searches again; a task is
\* processed (record appended, return to the list started) before another
\* one is opened.
C20_TodaTareaAbiertaTermina ==
    /\ (pc = "procesar") ~> (pc = "volver" /\ Len(log) > 0 /\ log[Len(log)].id = taskId.id)
    /\ (pc = "procesar") ~> (pc = "buscar")
    /\ [][(pc' = "procesar" /\ pc /= "procesar") =>
             (pc = "buscar" /\ Len(log) >= Len(procesadas) /\ hist.paso /= "procesar")]_vars

----------------------------------------------------------------------------
(* actWithCache over cache.json *)

\* what page.observe(instruction) can resolve to
ResultadosObserve ==
    {<<>>} \cup {<<a>> : a \in Acciones} \cup {<<a, b>> : a, b \in Acciones}

\* return cache[instruction] || null, line 303
ReadCache(c, i) == IF c[i] = AUSENTE THEN NULL ELSE c[i]

\* JSON.stringify(cache, null, 2), line 291: a property whose value is
\* undefined is left out of the text
JSONStringify(c) == [i \in DOMAIN c |-> IF c[i] = UNDEFINED THEN AUSENTE ELSE c[i]]

\* simpleCache, lines 272-295: the new content of cache.json; a failed
\* writeFile is caught at line 292 and leaves the file as it was
SimpleCache(c, i, actionToCache, escribe) ==
    IF escribe THEN JSONStringify([c EXCEPT ![i] = actionToCache]) ELSE c

\* A variant that takes the last result of the observation.
UltimoResultado(results) ==
    IF results = <<>> THEN UNDEFINED ELSE results[Len(results)]

\* const actionToCache = results[0], line 333
PrimerResultado(results) ==
    IF results = <<>> THEN UNDEFINED ELSE results[1]

\* cache.json does not exist before the first call
InitCache ==
    /\ cache = [i \in Instrucciones |-> AUSENTE]
    /\ llamada = SinLlamada
    /\ PatronEnReposo
    /\ OCREnReposo
    /\ BucleEnReposo

\* One call of actWithCache, lines 316-343. observa, overlay and actua say
\* whether page.observe, the overlay calls (page.evaluate) and page.act
\* resolve or throw; escribe says whether fs.writeFile succeeds.
ActWithCache ==
    /\ \E i \in Instrucciones, results \in ResultadosObserve,
       observa \in BOOLEAN, escribe \in BOOLEAN, overlay \in BOOLEAN, actua \in BOOLEAN :
        LET cachedAction == ReadCache(cache, i)
            actionToCache == PrimerResultado(results)
            base == [instruccion |-> i, antes |-> cache, leida |-> cachedAction,
                     observaciones |-> 0, results |-> <<>>, escrita |-> FALSE,
                     actos |-> <<>>, salida |-> "lanza"]
            fin == IF actua THEN "retorna" ELSE "lanza"
        IN  IF cachedAction /= NULL
            THEN \* if (cachedAction) { await page.act(cachedAction); return; }
                 /\ llamada' = [base EXCEPT !.actos = <<cachedAction>>, !.salida = fin]
                 /\ UNCHANGED cache
            ELSE IF ~observa
            THEN \* page.observe throws
                 /\ llamada' = [base EXCEPT !.observaciones = 1]
                 /\ UNCHANGED cache
            ELSE /\ cache' = SimpleCache(cache, i, actionToCache, escribe)
                 /\ llamada' = [base EXCEPT !.observaciones = 1, !.results = results,
                                            !.escrita = escribe,
                                            !.actos = IF overlay THEN <<actionToCache>> ELSE <<>>,
                                            !.salida = IF overlay THEN fin ELSE "lanza"]
    /\ UNCHANGED <<varsPatron, varsOCR, varsBucle>>

NextCache == ActWithCache

SpecCache == InitCache /\ [][NextCache]_vars

(* C15: actWithCache *)

\* the last call found an action for its instruction in cache.json
Acierto == llamada.antes[llamada.instruccion] /= AUSENTE

CandidatoDeResultados ==
    IF Reconocidas = {} THEN 0
    ELSE CHOOSE i \in Reconocidas :
             \A j \in Reconocidas :
                 /\ Len(resultados[j].text) <= Len(resultados[i].text)
                 /\ j < i => Len(resultados[j].text) < Len(resultados[i].text)

\* the outcome class the per-image results and the final result alone select
ClaseDeResultados ==
    IF CandidatoDeResultados = 0 THEN "sin_ticket"
    ELSE IF ~resFinal.ok THEN "error_final"
    ELSE IF \E i \in 1..Len(resFinal.text) : HayOcurrencia(resFinal.text, i) THEN "exito"
    ELSE "sin_domicilio"

\* C21: given the same per-image OCR results (texts or failures) and the same
\* final OCR result, encontrarYExtraerInfoTicket and analizarTareaActual
\* select the candidate at the same index and end in the same outcome class,
\* with the same code when the address is found: index and outcome are
\* determined by those results and the worker's answers, whichever the entry.
C21_MismaLogicaEnAmbasEntradas ==
    (opc = "fin" /\ creados = 1) =>
        /\ mejorCandidato = CandidatoDeResultados
        /\ salida.tipo = "excepcion" <=> terminados = 0
        /\ salida.tipo = "retorno" =>
              /\ salida.clase = IF terminateCalls = 2 THEN "error_final" ELSE ClaseDeResultados
              /\ salida.clase = "exito" =>
                    salida.domicilio = PatronDomicilioExec(resFinal.text).grupo

\* the on-screen entry: the first screenshot failed, the second thumbnail is
\* the candidate and its final text gives the address
C21_Witness ==
    /\ opc = "fin"
    /\ modo = "pantalla"
    /\ Len(resultados) >= 2
    /\ resultados[1] = Fallo("screenshot")
    /\ mejorCandidato = 2
    /\ salida.clase = "exito"
    /\ salida.domicilio = JMB \o <<"7", "7", "8", "8">>

(* C22 - C23: where the search starts, and what the error record means *)

\* C22: whenever abrirSiguienteTarea is entered the browser is on the task
\* list page, not on a task detail page: every opening of a detail view is
\* followed by volverALaLista or recuperarEstado before the next search.
C22_BusquedaEnLaLista ==
    pc = "buscar" => pagina = "lista"

\* C23: 'Error - No se encontró Reviewer' is logged for a task only if its
\* Reviewer field did not show within the timeout; a failure at a later step,
\* the approve click for one, is never recorded under that status.
C23_ErrorSoloPorReviewer ==
    \A k \in 1..Len(RegistrosDeLaTarea) :
        RegistrosDeLaTarea[k].estado = EstadoSinReviewer => obs.reviewer = "timeout"

====
